---- MODULE Spec2Model ----
(***************************************************************************)
(* Smolyak sparse-grid quadrature with Clenshaw-Curtis nodes               *)
(* (src/sparse_clenshaw_curtis.py) and the integration operator of         *)
(* src/example.py.                                                         *)
(*                                                                         *)
(* Real numbers are exact rationals <<num, den>> (den > 0, lowest terms).  *)
(* A Python number is a record [ty, v2]: its type and twice its value, so  *)
(* that 0.5 and 1.5 are representable next to the integers.                *)
(* A reference node of the order-n rule is the pair <<k, n>>, standing for *)
(* cos(k*pi/n); a grid coordinate is [node, scale, shift], standing for    *)
(* scale*cos(k*pi/n) + shift.                                              *)
(***************************************************************************)
EXTENDS Integers, Sequences, FiniteSets, TLC

\* ------------------------------------------------------------------ bounds
MaxDim == 3
MaxLevel == 2
BelowLevels == 2
MaxIndices == 2
MaxIndex == 2

Dims == 1..MaxDim
Levels == (0 - BelowLevels)..MaxLevel
\* index_set and the growth rule alone are called at higher levels too
IndexSetLevels == (0 - BelowLevels)..(MaxLevel + 1)
GrowthLevels == (0 - BelowLevels)..(MaxLevel + 2)

\* Python numbers offered as interval endpoints: int -1, 0, 1, 2 and
\* float 0.5, 1.0, 1.5
PyInt(n) == [ty |-> "int", v2 |-> 2 * n]
PyFloat2(h) == [ty |-> "float", v2 |-> h]
Endpoints == {PyInt(n) : n \in (0 - 1)..2} \cup {PyFloat2(h) : h \in 1..3}

\* the integrands of the integration operator: constant functions
Funcs == 1..2

\* ------------------------------------------------------- exact arithmetic
Abs(x) == IF x < 0 THEN 0 - x ELSE x

RECURSIVE Gcd(_, _)
Gcd(x, y) == IF y = 0 THEN x ELSE Gcd(y, x % y)

Norm(n, d) ==
    LET g == Gcd(Abs(n), Abs(d))
        s == IF d < 0 THEN 0 - 1 ELSE 1
    IN  <<(s * n) \div g, (s * d) \div g>>

RAdd(p, q) ==
    LET l == (p[2] \div Gcd(p[2], q[2])) * q[2]
    IN  Norm(p[1] * (l \div p[2]) + q[1] * (l \div q[2]), l)

RMul(p, q) ==
    LET g1 == Gcd(Abs(p[1]), q[2])
        g2 == Gcd(Abs(q[1]), p[2])
        h1 == IF g1 = 0 THEN 1 ELSE g1
        h2 == IF g2 = 0 THEN 1 ELSE g2
    IN  Norm((p[1] \div h1) * (q[1] \div h2), (p[2] \div h2) * (q[2] \div h1))

RInt(n) == <<n, 1>>

RECURSIVE RPow(_, _)
RPow(p, e) == IF e = 0 THEN RInt(1) ELSE RMul(p, RPow(p, e - 1))

RECURSIVE IPow(_, _)
IPow(x, e) == IF e = 0 THEN 1 ELSE x * IPow(x, e - 1)

\* sum of s[lo..hi], by halves
RECURSIVE RSumRange(_, _, _)
RSumRange(s, lo, hi) ==
    IF lo > hi THEN RInt(0)
    ELSE IF lo = hi THEN s[lo]
    ELSE LET mid == (lo + hi) \div 2
         IN  RAdd(RSumRange(s, lo, mid), RSumRange(s, mid + 1, hi))

RSum(s) == RSumRange(s, 1, Len(s))

RECURSIVE ISum(_)
ISum(s) == IF s = <<>> THEN 0 ELSE Head(s) + ISum(Tail(s))

RECURSIVE RProd(_)
RProd(s) == IF s = <<>> THEN RInt(1) ELSE RMul(Head(s), RProd(Tail(s)))

\* math.comb(n, k) for 0 <= k, 0 <= n
RECURSIVE comb(_, _)
comb(n, k) ==
    IF k = 0 THEN 1
    ELSE IF n = 0 THEN 0
    ELSE comb(n - 1, k - 1) + comb(n - 1, k)

\* itertools.product(*lists): the last list varies fastest
RECURSIVE product(_)
product(lists) ==
    IF lists = <<>> THEN << <<>> >>
    ELSE LET rest == product(Tail(lists))
             h    == Head(lists)
             r    == Len(rest)
         IN  [j \in 1..(Len(h) * r) |->
                 <<h[((j - 1) \div r) + 1]>> \o rest[((j - 1) % r) + 1]]

\* list(range(1, stop))
range1(stop) == [k \in 1..(IF stop < 1 THEN 0 ELSE stop - 1) |-> k]

\* [x] * n
repeat(x, n) == [k \in 1..n |-> x]

\* --------------------------------------------------------------- program
NoError == "none"

\* mutant: the lower bound of the component sum is strict
index_set_strict(dim, level) ==
    LET keep(idx) == level + 1 < ISum(idx) /\ ISum(idx) <= level + dim
    IN  SelectSeq(product(repeat(range1(level + dim + 1), dim)), keep)

\* mutant: the components stop one short, at level + dim - 1
index_set_short(dim, level) ==
    LET keep(idx) == level + 1 <= ISum(idx) /\ ISum(idx) <= level + dim
    IN  SelectSeq(product(repeat(range1(level + dim), dim)), keep)

\* mutant: the component sum may go one beyond level + dim
index_set_wide(dim, level) ==
    LET keep(idx) == level + 1 <= ISum(idx) /\ ISum(idx) <= level + dim + 1
    IN  SelectSeq(product(repeat(range1(level + dim + 1), dim)), keep)

\* index_set(dim, level): the list of multi-indices, in generation order
index_set(dim, level) ==
    LET keep(idx) == level + 1 <= ISum(idx) /\ ISum(idx) <= level + dim
    IN  SelectSeq(product(repeat(range1(level + dim + 1), dim)), keep)

\* mutant: level 1 is not set apart
growth_rule_uniform(level) ==
    IF level < 1
    THEN [exc |-> "ValueError", msg |-> "Level must be >= 1 for Sparse Grid.", value |-> 0]
    ELSE [exc |-> NoError, msg |-> "", value |-> IPow(2, level - 1) + 1]

\* closed_non_linear_growth_rule(level)
closed_non_linear_growth_rule(level) ==
    IF level < 1
    THEN [exc |-> "ValueError", msg |-> "Level must be >= 1 for Sparse Grid.", value |-> 0]
    ELSE IF level = 1
    THEN [exc |-> NoError, msg |-> "", value |-> 1]
    ELSE [exc |-> NoError, msg |-> "", value |-> IPow(2, level - 1) + 1]

\* modepy's _make_clenshaw_curtis_nodes_and_weights(n), n >= 1: the rule of
\* order n on the n + 1 extrema cos(k*pi/n), k = 0..n; order 1 is the pair
\* of nodes (-1, 1) with weights (1, 1).  The two endpoint weights are
\* 1/(n^2 - 1 + n % 2); the interior weights are irrational from order 5 on
\* and are represented by equal shares of the remainder (exact for order 3:
\* 1/9, 8/9, 8/9, 1/9), so that the weights sum to 2 as those of the rule do.
make_clenshaw_curtis_nodes_and_weights(n) ==
    IF n = 1
    THEN [x |-> << <<1, 1>>, <<0, 1>> >>, w |-> <<RInt(1), RInt(1)>>]
    ELSE LET e  == n * n - 1 + (n % 2)
             we == Norm(1, e)
             wi == Norm(2 * (e - 1), e * (n - 1))
         IN  [x |-> [k \in 1..(n + 1) |-> <<k - 1, n>>],
              w |-> [k \in 1..(n + 1) |-> IF k = 1 \/ k = n + 1 THEN we ELSE wi]]

\* clenshaw_curtis_rule(level): the error of the growth rule is not caught
clenshaw_curtis_rule(level) ==
    LET m == closed_non_linear_growth_rule(level)
    IN  IF m.exc # NoError
        THEN [exc |-> m.exc, msg |-> m.msg, x |-> <<>>, w |-> <<>>]
        ELSE LET r == make_clenshaw_curtis_nodes_and_weights(m.value)
             IN  [exc |-> NoError, msg |-> "", x |-> r.x, w |-> r.w]

\* clenshaw_curtis_rule as the callable handed to tensor_product_rule
RuleLevels == (0 - BelowLevels)..(MaxLevel + MaxIndex + 1)
one_d_clenshaw_curtis == [l \in RuleLevels |-> clenshaw_curtis_rule(l)]

\* the value of a Python number, and the comparison a < b
PyLess(a, b) == a.v2 < b.v2
PyHalfDiff(a, b) == Norm(b.v2 - a.v2, 4)
PyHalfSum(a, b) == Norm(a.v2 + b.v2, 4)

\* a node of the reference interval as a grid coordinate
Coord(node) == [node |-> node, scale |-> RInt(1), shift |-> RInt(0)]

\* c * x + t on a grid coordinate
Affine(c, x, t) ==
    [node |-> x.node, scale |-> RMul(c, x.scale), shift |-> RAdd(RMul(c, x.shift), t)]

NoRule == [exc |-> NoError, msg |-> "", grid |-> <<>>, weights |-> <<>>,
           calls |-> 0, remapped |-> FALSE]

\* lines 136-143 of tensor_product_rule: the rule once a and b are accepted;
\* calls counts the invocations of one_d_rule made before it returns or raises
tensor_assemble(indices, one_d_rule, a, b) ==
    LET n   == Len(indices)
        bad == {k \in 1..n : one_d_rule[indices[k]].exc # NoError}
    IN  IF bad # {}
        THEN LET k == CHOOSE j \in bad : \A h \in bad : j <= h
                 r == one_d_rule[indices[k]]
             IN  [NoRule EXCEPT !.exc = r.exc, !.msg = r.msg, !.calls = k]
        ELSE LET pts_1d  == [k \in 1..n |-> one_d_rule[indices[k]].x]
                 wts_1d  == [k \in 1..n |-> one_d_rule[indices[k]].w]
                 nodes   == product(pts_1d)
                 grid    == [j \in 1..Len(nodes) |->
                                [k \in 1..n |-> Coord(nodes[j][k])]]
                 wprod   == product(wts_1d)
                 weights == [j \in 1..Len(wprod) |-> RProd(wprod[j])]
                 remap   == ~ (a = PyInt(0 - 1) /\ b = PyInt(1))
                 c       == PyHalfDiff(a, b)
                 t       == PyHalfSum(a, b)
             IN  IF remap
                 THEN [NoRule EXCEPT
                         !.grid = [j \in 1..Len(grid) |->
                                     [k \in 1..n |-> Affine(c, grid[j][k], t)]],
                         !.weights = [j \in 1..Len(weights) |->
                                        RMul(weights[j], RPow(c, n))],
                         !.calls = 2 * n, !.remapped = TRUE]
                 ELSE [NoRule EXCEPT !.grid = grid, !.weights = weights,
                                     !.calls = 2 * n]

EmptyInterval == [NoRule EXCEPT !.exc = "ValueError",
                                !.msg = "Empty interval. Check if a < b...!"]
NotIntegers == [NoRule EXCEPT !.exc = "TypeError",
                              !.msg = "Interval boundaries need to be integers."]

\* mutant: the type check of the endpoints is missing
tensor_product_rule_untyped(indices, one_d_rule, a, b) ==
    IF ~ PyLess(a, b) THEN EmptyInterval
    ELSE tensor_assemble(indices, one_d_rule, a, b)

\* mutant: the interval check reads a <= b, and comes after the type check
tensor_product_rule_closed(indices, one_d_rule, a, b) ==
    IF ~ (a.ty = b.ty /\ b.ty = "int") THEN NotIntegers
    ELSE IF ~ (a.v2 <= b.v2) THEN EmptyInterval
    ELSE tensor_assemble(indices, one_d_rule, a, b)

\* tensor_product_rule(indices, one_d_rule, a, b), one_d_rule being the
\* callable as a function of the level
tensor_product_rule(indices, one_d_rule, a, b) ==
    IF ~ PyLess(a, b) THEN EmptyInterval
    ELSE IF ~ (a.ty = b.ty /\ b.ty = "int") THEN NotIntegers
    ELSE tensor_assemble(indices, one_d_rule, a, b)

\* mutant: the binomial is taken of dim, not dim - 1
coeff_dim(dim, level, idx) ==
    IPow(0 - 1, level + dim - ISum(idx)) * comb(dim, level + dim - ISum(idx))

\* coeff of sparse_grid_nodes_weights for the multi-index idx
coeff(dim, level, idx) ==
    IPow(0 - 1, level + dim - ISum(idx)) * comb(dim - 1, level + dim - ISum(idx))

\* ----------------------------------------------------------------- state
VARIABLES pc,   \* "idle": nothing called yet; "loop": in the loop of
                 \* sparse_grid_nodes_weights; "done": returned or raised
    op,          \* the function called
    args,        \* its arguments
    idxs,        \* the list index_set(dim, level) the loop runs over
    i,           \* position of the loop in idxs
    all_points,  \* all_points of sparse_grid_nodes_weights
    all_weights, \* all_weights of sparse_grid_nodes_weights
    calls,       \* invocations of the 1D rule so far
    result       \* what the call returned or raised

vars == <<pc, op, args, idxs, i, all_points, all_weights, calls, result>>

NoArgs == [dim |-> 0, level |-> 0, a |-> PyInt(0), b |-> PyInt(1),
           indices |-> <<>>, func |-> 0]

NoResult == [kind |-> "none", exc |-> NoError, msg |-> "", points |-> <<>>,
             weights |-> <<>>, value |-> 0, list |-> <<>>, remapped |-> FALSE]

Returned(r) == [r EXCEPT !.kind = "return"]
Raised(exc, msg) == [NoResult EXCEPT !.kind = "raise", !.exc = exc, !.msg = msg]

IndexLists == UNION {[1..n -> 0..MaxIndex] : n \in 0..MaxIndices}

Init ==
    /\ pc = "idle"
    /\ op = "none"
    /\ args = NoArgs
    /\ idxs = <<>>
    /\ i = 0
    /\ all_points = <<>>
    /\ all_weights = <<>>
    /\ calls = 0
    /\ result = NoResult

\* index_set(dim, level)
CallIndexSet(dim, level) ==
    /\ pc = "idle"
    /\ pc' = "done"
    /\ op' = "index_set"
    /\ args' = [NoArgs EXCEPT !.dim = dim, !.level = level]
    /\ result' = Returned([NoResult EXCEPT !.list = index_set(dim, level)])
    /\ UNCHANGED <<idxs, i, all_points, all_weights, calls>>

\* closed_non_linear_growth_rule(level)
CallGrowthRule(level) ==
    /\ pc = "idle"
    /\ pc' = "done"
    /\ op' = "closed_non_linear_growth_rule"
    /\ args' = [NoArgs EXCEPT !.level = level]
    /\ LET m == closed_non_linear_growth_rule(level)
       IN  result' = IF m.exc # NoError
                     THEN Raised(m.exc, m.msg)
                     ELSE Returned([NoResult EXCEPT !.value = m.value])
    /\ UNCHANGED <<idxs, i, all_points, all_weights, calls>>

\* clenshaw_curtis_rule(level)
CallClenshawCurtisRule(level) ==
    /\ pc = "idle"
    /\ pc' = "done"
    /\ op' = "clenshaw_curtis_rule"
    /\ args' = [NoArgs EXCEPT !.level = level]
    /\ LET r == clenshaw_curtis_rule(level)
       IN  result' = IF r.exc # NoError
                     THEN Raised(r.exc, r.msg)
                     ELSE Returned([NoResult EXCEPT !.points = r.x, !.weights = r.w])
    /\ calls' = 1
    /\ UNCHANGED <<idxs, i, all_points, all_weights>>

\* tensor_product_rule(indices, one_d_clenshaw_curtis, a, b)
CallTensorProductRule(indices, a, b) ==
    /\ pc = "idle"
    /\ pc' = "done"
    /\ op' = "tensor_product_rule"
    /\ args' = [NoArgs EXCEPT !.indices = indices, !.a = a, !.b = b]
    /\ LET r == tensor_product_rule(indices, one_d_clenshaw_curtis, a, b)
       IN  /\ result' = IF r.exc # NoError
                         THEN Raised(r.exc, r.msg)
                         ELSE Returned([NoResult EXCEPT !.points = r.grid,
                                                        !.weights = r.weights,
                                                        !.remapped = r.remapped])
           /\ calls' = r.calls
    /\ UNCHANGED <<idxs, i, all_points, all_weights>>

\* sparse_grid_nodes_weights(dim, level, a, b), up to the loop
CallSparseGrid(dim, level, a, b) ==
    /\ pc = "idle"
    /\ pc' = "loop"
    /\ op' = "sparse_grid_nodes_weights"
    /\ args' = [NoArgs EXCEPT !.dim = dim, !.level = level, !.a = a, !.b = b]
    /\ idxs' = index_set(dim, level)
    /\ i' = 1
    /\ all_points' = <<>>
    /\ all_weights' = <<>>
    /\ UNCHANGED <<calls, result>>

\* sparse_grid_integrate(func, dim, level) of example.py, up to the loop of
\* the sparse_grid_nodes_weights(dim, level) it calls
CallIntegrate(func, dim, level) ==
    /\ pc = "idle"
    /\ pc' = "loop"
    /\ op' = "sparse_grid_integrate"
    /\ args' = [NoArgs EXCEPT !.dim = dim, !.level = level, !.func = func]
    /\ idxs' = index_set(dim, level)
    /\ i' = 1
    /\ all_points' = <<>>
    /\ all_weights' = <<>>
    /\ UNCHANGED <<calls, result>>

\* one pass of the loop over the multi-indices
LoopStep ==
    /\ pc = "loop"
    /\ i <= Len(idxs)
    /\ LET idx == idxs[i]
           cf  == coeff(args.dim, args.level, idx)
           r   == tensor_product_rule(idx, one_d_clenshaw_curtis, args.a, args.b)
       IN  /\ calls' = calls + r.calls
           /\ IF r.exc # NoError
              THEN /\ pc' = "done"
                   /\ result' = Raised(r.exc, r.msg)
                   /\ UNCHANGED <<i, all_points, all_weights>>
              ELSE /\ all_points' = all_points \o r.grid
                   /\ all_weights' = all_weights \o
                         [j \in 1..Len(r.weights) |-> RMul(RInt(cf), r.weights[j])]
                   /\ i' = i + 1
                   /\ UNCHANGED <<pc, result>>
    /\ UNCHANGED <<op, args, idxs>>

\* the loop is over: sparse_grid_nodes_weights returns, and
\* sparse_grid_integrate returns the dot product of the values and weights
Return ==
    /\ pc = "loop"
    /\ i > Len(idxs)
    /\ pc' = "done"
    /\ result' =
         IF op = "sparse_grid_integrate"
         THEN Returned([NoResult EXCEPT !.value =
                 RSum([j \in 1..Len(all_weights) |->
                          RMul(RInt(args.func), all_weights[j])])])
         ELSE Returned([NoResult EXCEPT !.points = all_points, !.weights = all_weights])
    /\ UNCHANGED <<op, args, idxs, i, all_points, all_weights, calls>>

Next ==
    \/ \E dim \in Dims, level \in IndexSetLevels : CallIndexSet(dim, level)
    \/ \E level \in GrowthLevels : CallGrowthRule(level)
    \/ \E level \in GrowthLevels : CallClenshawCurtisRule(level)
    \/ \E indices \in IndexLists, a \in Endpoints, b \in Endpoints :
          CallTensorProductRule(indices, a, b)
    \/ \E dim \in Dims, level \in Levels, a \in Endpoints, b \in Endpoints :
          CallSparseGrid(dim, level, a, b)
    \/ \E func \in Funcs, dim \in Dims, level \in Levels : CallIntegrate(func, dim, level)
    \/ LoopStep
    \/ Return

Spec == Init /\ [][Next]_vars

\* ---------------------------------------------------------------- claims
Done(f) == pc = "done" /\ op = f
ReturnedFrom(f) == Done(f) /\ result.kind = "return"
RaisedFrom(f, exc) == Done(f) /\ result.kind = "raise" /\ result.exc = exc
IntEndpoints == args.a.ty = "int" /\ args.b.ty = "int"

\* (b - a)^d for integers a and b
Volume(a, b, d) == RPow(Norm(b.v2 - a.v2, 2), d)

\* pointCount(level) of the growth rule, level >= 1
pointCount(level) == closed_non_linear_growth_rule(level).value

\* C1: for dim >= 1 and level >= 1 the weights sparse_grid_nodes_weights
\* returns sum to (b - a)^dim, the signed coefficients of the multi-indices
\* sum to 1, and integrating the constant 1 over [0,1]^dim returns 1 (a
\* constant c returns c).
C1_WeightSum ==
    /\ (ReturnedFrom("sparse_grid_nodes_weights") /\ args.level >= 1)
          => RSum(result.weights) = Volume(args.a, args.b, args.dim)
    /\ (ReturnedFrom("sparse_grid_integrate") /\ args.level >= 1)
          => result.value = RInt(args.func)
    /\ (op \in {"sparse_grid_nodes_weights", "sparse_grid_integrate"} /\ args.level >= 1)
          => ISum([k \in 1..Len(idxs) |-> coeff(args.dim, args.level, idxs[k])]) = 1

C1_Witness ==
    /\ ReturnedFrom("sparse_grid_nodes_weights")
    /\ args.dim = 3 /\ args.level = 2 /\ args.a = PyInt(0) /\ args.b = PyInt(2)
    /\ \E j \in 1..Len(result.weights) : result.weights[j][1] < 0
    /\ RSum(result.weights) = RInt(8)

\* C2 as stated: index_set(2, 3) has exactly 4 multi-indices.
C2_Original ==
    (ReturnedFrom("index_set") /\ args.dim = 2 /\ args.level = 3)
        => Len(result.list) = 4

\* C2, amended: index_set(2, 3) has exactly 7 multi-indices, the 2-tuples
\* over 1..5 whose components sum to 4 or 5, each listed once.
C2_IndexSetSize ==
    (ReturnedFrom("index_set") /\ args.dim = 2 /\ args.level = 3)
        => /\ Len(result.list) = 7
           /\ {result.list[k] : k \in 1..Len(result.list)} =
                 {t \in (1..5) \X (1..5) : t[1] + t[2] \in 4..5}
           /\ Cardinality({result.list[k] : k \in 1..Len(result.list)}) = 7

C2_Witness ==
    /\ ReturnedFrom("index_set") /\ args.dim = 2 /\ args.level = 3
    /\ result.list[1] = <<1, 3>>
    /\ result.list[7] = <<4, 1>>

\* C3 as stated: index_set(1, L) is the single multi-index (L,), L >= 1.
C3_Original ==
    (ReturnedFrom("index_set") /\ args.dim = 1 /\ args.level >= 1)
        => result.list = << <<args.level>> >>

\* C3, amended: index_set(1, L) is the single multi-index (L + 1,), so the
\* one-dimensional sparse grid of level L uses the 1D rule of level L + 1.
C3_SingleIndex ==
    /\ (ReturnedFrom("index_set") /\ args.dim = 1 /\ args.level >= 1)
          => result.list = << <<args.level + 1>> >>
    /\ (op = "sparse_grid_nodes_weights" /\ args.dim = 1 /\ args.level >= 1)
          => idxs = << <<args.level + 1>> >>

C3_Witness ==
    /\ ReturnedFrom("index_set") /\ args.dim = 1 /\ args.level = 2
    /\ result.list = << <<3>> >>

\* the value of a coordinate whose node has a rational cosine
ExactNode(node) ==
    \/ node[1] = 0 \/ node[1] = node[2] \/ 2 * node[1] = node[2]
    \/ 3 * node[1] = node[2] \/ 3 * node[1] = 2 * node[2]
CosExact(node) ==
    IF node[1] = 0 THEN RInt(1)
    ELSE IF node[1] = node[2] THEN RInt(0 - 1)
    ELSE IF 2 * node[1] = node[2] THEN RInt(0)
    ELSE IF 3 * node[1] = node[2] THEN Norm(1, 2)
    ELSE Norm(0 - 1, 2)
CoordValue(x) == RAdd(RMul(x.scale, CosExact(x.node)), x.shift)

\* C4: sparse_grid_nodes_weights(1, 1, 0, 2) returns exactly one node, the
\* midpoint 1.0, with weight 2.0.
C4_Midpoint ==
    (Done("sparse_grid_nodes_weights") /\ args.dim = 1 /\ args.level = 1
        /\ args.a = PyInt(0) /\ args.b = PyInt(2))
        => /\ result.kind = "return"
           /\ Len(result.points) = 1
           /\ ExactNode(result.points[1][1].node)
           /\ CoordValue(result.points[1][1]) = RInt(1)
           /\ result.weights = <<RInt(2)>>

\* C5: tensor_product_rule with integers a < b and levels >= 1 returns
\* N = product of pointCount(indices[k]) points and N weights, the weights
\* sum to (b - a)^len(indices), and the remap is applied exactly when
\* (a, b) is not (-1, 1).
C5_TensorRule ==
    (Done("tensor_product_rule") /\ IntEndpoints /\ PyLess(args.a, args.b)
        /\ \A k \in 1..Len(args.indices) : args.indices[k] >= 1)
        => /\ result.kind = "return"
           /\ Len(result.points) =
                 RProd([k \in 1..Len(args.indices) |->
                          RInt(pointCount(args.indices[k]))])[1]
           /\ Len(result.weights) = Len(result.points)
           /\ RSum(result.weights) = Volume(args.a, args.b, Len(args.indices))
           /\ result.remapped = ~ (args.a = PyInt(0 - 1) /\ args.b = PyInt(1))

\* C6 as stated: whenever a or b is not an int, tensor_product_rule fails
\* with TypeError.
C6_Original ==
    (Done("tensor_product_rule") /\ ~ IntEndpoints)
        => (result.kind = "raise" /\ result.exc = "TypeError")

\* C6, amended: whenever a < b and a or b is not an int,
\* tensor_product_rule fails with TypeError, before the 1D rule is called;
\* when a >= b it fails with ValueError (empty interval) whatever the types.
C6_TypeError ==
    /\ (Done("tensor_product_rule") /\ ~ IntEndpoints /\ PyLess(args.a, args.b))
          => /\ result.kind = "raise" /\ result.exc = "TypeError"
             /\ result.msg = "Interval boundaries need to be integers."
             /\ calls = 0
    /\ (Done("tensor_product_rule") /\ ~ IntEndpoints /\ ~ PyLess(args.a, args.b))
          => /\ result.kind = "raise" /\ result.exc = "ValueError"
             /\ result.msg = "Empty interval. Check if a < b...!"

C6_Witness ==
    /\ RaisedFrom("tensor_product_rule", "TypeError")
    /\ args.a = PyFloat2(1) /\ args.b = PyInt(1)
    /\ Len(args.indices) > 0

\* C7: whenever a >= b, tensor_product_rule fails with ValueError before
\* the 1D rule is called for any index; sparse_grid_nodes_weights with
\* dim >= 1, level >= 1 and a >= b raises on the first multi-index and
\* returns no partial result.
C7_EmptyInterval ==
    /\ (Done("tensor_product_rule") /\ ~ PyLess(args.a, args.b))
          => /\ result.kind = "raise" /\ result.exc = "ValueError"
             /\ result.msg = "Empty interval. Check if a < b...!"
             /\ calls = 0
    /\ (op = "sparse_grid_nodes_weights" /\ args.level >= 1 /\ ~ PyLess(args.a, args.b))
          => /\ i = 1 /\ calls = 0
             /\ all_points = <<>> /\ all_weights = <<>>
             /\ result.kind # "return"
             /\ result.points = <<>> /\ result.weights = <<>>
             /\ pc = "done" =>
                   /\ result.kind = "raise" /\ result.exc = "ValueError"
                   /\ result.msg = "Empty interval. Check if a < b...!"

C7_Witness ==
    /\ RaisedFrom("sparse_grid_nodes_weights", "ValueError")
    /\ args.dim = 2 /\ args.level = 2
    /\ args.a = PyInt(1) /\ args.b = PyInt(1)
    /\ Len(idxs) > 1

\* C8: closed_non_linear_growth_rule returns 1 for level 1 and
\* 2^(level-1) + 1 for level >= 2 (1, 3, 5, 9 for levels 1..4), raises
\* ValueError for level < 1, and clenshaw_curtis_rule lets that error through.
C8_GrowthRule ==
    /\ Done("closed_non_linear_growth_rule") =>
          /\ args.level < 1 <=> (result.kind = "raise" /\ result.exc = "ValueError")
          /\ args.level >= 1 <=> result.kind = "return"
          /\ args.level = 1 => result.value = 1
          /\ args.level = 2 => result.value = 3
          /\ args.level = 3 => result.value = 5
          /\ args.level = 4 => result.value = 9
          /\ args.level >= 2 => result.value = IPow(2, args.level - 1) + 1
    /\ Done("clenshaw_curtis_rule") =>
          /\ args.level < 1 <=>
                /\ result.kind = "raise" /\ result.exc = "ValueError"
                /\ result.msg = "Level must be >= 1 for Sparse Grid."
          /\ args.level >= 1 <=> result.kind = "return"

C8_Witness ==
    /\ ReturnedFrom("closed_non_linear_growth_rule")
    /\ args.level = 4 /\ result.value = 9

\* the concatenation of the tensor rules of idxs[1..n], weights scaled by coeff
RECURSIVE ConcatRules(_)
ConcatRules(n) ==
    IF n = 0 THEN [points |-> <<>>, weights |-> <<>>]
    ELSE LET prev == ConcatRules(n - 1)
             r    == tensor_product_rule(idxs[n], one_d_clenshaw_curtis, args.a, args.b)
             cf   == coeff(args.dim, args.level, idxs[n])
         IN  [points  |-> prev.points \o r.grid,
              weights |-> prev.weights \o
                            [j \in 1..Len(r.weights) |-> RMul(RInt(cf), r.weights[j])]]

\* C9: sparse_grid_nodes_weights returns the concatenation, in index_set
\* order, of every tensor rule's points, unmerged: points and weights have
\* the same length, the sum over the multi-indices of the product of
\* pointCount(idx[k]); each weight is the tensor weight times coeff, and
\* coeff is non-zero for every multi-index.
C9_Concatenation ==
    ReturnedFrom("sparse_grid_nodes_weights") =>
        /\ idxs = index_set(args.dim, args.level)
        /\ result.points = ConcatRules(Len(idxs)).points
        /\ result.weights = ConcatRules(Len(idxs)).weights
        /\ Len(result.points) = Len(result.weights)
        /\ \A k \in 1..Len(idxs) : coeff(args.dim, args.level, idxs[k]) # 0
        /\ Len(result.points) =
              ISum([k \in 1..Len(idxs) |->
                      RProd([h \in 1..args.dim |-> RInt(pointCount(idxs[k][h]))])[1]])

\* C10: for every dim >= 1 and every level, each component of each
\* multi-index lies in 1..level+1, so sparse_grid_nodes_weights never raises
\* the invalid-level error; level = 0 returns the rule of (1,...,1) with
\* coefficient 1, and level < 0 returns an empty rule whatever a and b are.
C10_Components ==
    /\ ReturnedFrom("index_set") =>
          \A k \in 1..Len(result.list) : \A h \in 1..args.dim :
              result.list[k][h] \in 1..(args.level + 1)
    /\ op \in {"sparse_grid_nodes_weights", "sparse_grid_integrate"} =>
          /\ \A k \in 1..Len(idxs) : \A h \in 1..args.dim :
                idxs[k][h] \in 1..(args.level + 1)
          /\ result.msg # "Level must be >= 1 for Sparse Grid."
    /\ (op = "sparse_grid_nodes_weights" /\ args.level = 0) =>
          /\ idxs = << [h \in 1..args.dim |-> 1] >>
          /\ coeff(args.dim, args.level, idxs[1]) = 1
          /\ (pc = "done" /\ IntEndpoints /\ PyLess(args.a, args.b)) =>
                LET r == tensor_product_rule(idxs[1], one_d_clenshaw_curtis,
                                             args.a, args.b)
                IN  /\ result.kind = "return"
                    /\ result.points = r.grid
                    /\ result.weights = r.weights
    /\ (op = "sparse_grid_nodes_weights" /\ args.level < 0) =>
          /\ idxs = <<>>
          /\ pc = "done" =>
                /\ result.kind = "return"
                /\ result.points = <<>> /\ result.weights = <<>>

C10_Witness ==
    /\ ReturnedFrom("sparse_grid_nodes_weights")
    /\ args.level < 0 /\ args.dim = 2
    /\ args.a = PyFloat2(3) /\ args.b = PyInt(0)

====
